---- MODULE Spec2Model ----
(***************************************************************************)
(* A model of carnatus, a small chess engine: the 12x10 padded board, the  *)
(* side-relative position snapshot, the move generator, the evaluator and  *)
(* the MTD-style searcher with its transposition table.                    *)
(***************************************************************************)
EXTENDS Integers, Sequences, FiniteSets, TLC

VARIABLES
  pos,       \* the Position held by the shell (board, score, wc, bc, ep, kp)
  last,      \* the operation that produced pos, with its argument and operand
  plies,     \* number of operations applied since the initial snapshot
  brd,       \* a Board value, flipped by Board.Flip
  brd0,      \* the board brd started from
  flips,     \* number of Board.Flip calls applied to brd0
  tp,        \* Searcher.tp, the entries of the snapshots the search reaches
  tpOther,   \* number of further entries of Searcher.tp (other snapshots)
  nodes,     \* Searcher.nodes
  pc,        \* position of Searcher.Search: idle, window, depthEnd, done
  depth,     \* Search: depth
  lower,     \* Search: lower
  upper,     \* Search: upper
  score,     \* Search: score
  maxNodes,  \* Search: maxNodes
  probes,    \* probes made in the current depth iteration
  result,    \* the Move returned by Search
  hist,      \* what the stores into Searcher.tp did so far: entries replaced
             \* in place, and the table sizes at which the table was cleared
  uci        \* the uci shell: its flag white, whether the side to move in the
             \* held position is white, and the move "go" printed last

vars == << pos, last, plies, brd, brd0, flips, tp, tpOther, nodes, pc, depth,
           lower, upper, score, maxNodes, probes, result, hist, uci >>

(***************************************************************************)
(* Pieces                                                                  *)
(***************************************************************************)

\* abs, computed without branching: (n ^ n>>63) - n>>63.  n>>63 is -1 for a
\* negative n and 0 otherwise; n ^ -1 is -n-1 and n ^ 0 is n.
abs(n) ==
  LET sign == IF n < 0 THEN -1 ELSE 0
      xored == IF sign = -1 THEN (-n) - 1 ELSE n
  IN  xored - sign

\* Go's integer division truncates toward zero.
GoDiv(a, b) == IF a >= 0 THEN a \div b ELSE -((-a) \div b)

OurPieces == {"P", "N", "B", "R", "Q", "K"}
TheirPieces == {"p", "n", "b", "r", "q", "k"}
Empty == "."
OffBoard == " "
NoPiece == "0"   \* the zero Piece a map lookup of a missing key returns
PieceCodes == OurPieces \cup TheirPieces \cup {Empty, OffBoard}

PieceValue(p) ==
  CASE p = "P" -> 100
    [] p = "N" -> 280
    [] p = "B" -> 320
    [] p = "R" -> 479
    [] p = "Q" -> 929
    [] p = "K" -> 60000
    [] OTHER -> 0

ours(p) == PieceValue(p) > 0

\* Piece.Flip with the entry of 'k' left out of the map.
PieceFlipNoKing(p) ==
  CASE p = "P" -> "p" [] p = "N" -> "n" [] p = "B" -> "b"
    [] p = "R" -> "r" [] p = "Q" -> "q" [] p = "K" -> "k"
    [] p = "p" -> "P" [] p = "n" -> "N" [] p = "b" -> "B"
    [] p = "r" -> "R" [] p = "q" -> "Q"
    [] p = " " -> " " [] p = "." -> "."
    [] OTHER -> NoPiece

PieceFlip(p) ==
  CASE p = "P" -> "p" [] p = "N" -> "n" [] p = "B" -> "b"
    [] p = "R" -> "r" [] p = "Q" -> "q" [] p = "K" -> "k"
    [] p = "p" -> "P" [] p = "n" -> "N" [] p = "b" -> "B"
    [] p = "r" -> "R" [] p = "q" -> "Q" [] p = "k" -> "K"
    [] p = " " -> " " [] p = "." -> "."
    [] OTHER -> NoPiece

(***************************************************************************)
(* Board and squares                                                       *)
(***************************************************************************)

BoardLen == 120
Cells == 0 .. (BoardLen - 1)

BoardFlip(a) == [i \in Cells |-> PieceFlip(a[BoardLen - i - 1])]

A1 == 91
H1 == 98
A8 == 21
H8 == 28

SquareFlip(s) == 119 - s

N == -10
E == 1
S == 10
W == -1

Inner == {r * 10 + c : r \in 2..9, c \in 1..8}

\* The grid invariant of a Board: sentinels outside, pieces or dots inside.
GridOK(b) ==
  \A i \in Cells : IF i \in Inner THEN b[i] \in OurPieces \cup TheirPieces \cup {Empty}
                                  ELSE b[i] = OffBoard

NoMove == [from |-> 0, to |-> 0]

(***************************************************************************)
(* Position                                                                *)
(***************************************************************************)

NoRights == [k \in 0..1 |-> FALSE]

\* Position{board: b} with all four castling rights set.
PositionOfAllRights(b) ==
  [board |-> b, score |-> 0, wc |-> [k \in 0..1 |-> TRUE],
   bc |-> [k \in 0..1 |-> TRUE], ep |-> 0, kp |-> 0]

\* Position{board: b}: every other field has its zero value.
PositionOf(b) ==
  [board |-> b, score |-> 0, wc |-> NoRights, bc |-> NoRights, ep |-> 0, kp |-> 0]

\* Position.Flip with ep and kp reset to 0, as its comment says.
PositionFlipResetTargets(p) ==
  [board |-> BoardFlip(p.board),
   score |-> -p.score,
   wc |-> [k \in 0..1 |-> p.bc[k]],
   bc |-> [k \in 0..1 |-> p.wc[k]],
   ep |-> 0,
   kp |-> 0]

PositionFlip(p) ==
  [board |-> BoardFlip(p.board),
   score |-> -p.score,
   wc |-> [k \in 0..1 |-> p.bc[k]],
   bc |-> [k \in 0..1 |-> p.wc[k]],
   ep |-> SquareFlip(p.ep),
   kp |-> SquareFlip(p.kp)]

(***************************************************************************)
(* Move generation                                                         *)
(***************************************************************************)

Mv(i, j) == [from |-> i, to |-> j]

\* The outcome of Moves when a board index outside 0..119 is read (Go panics).
PanicMove == [from |-> -1, to |-> -1]

directions(p) ==
  CASE p = "P" -> << N, N + N, N + W, N + E >>
    [] p = "N" -> << N + N + E, E + N + E, E + S + E, S + S + E,
                     S + S + W, W + S + W, W + N + W, N + N + W >>
    [] p = "B" -> << N + E, S + E, S + W, N + W >>
    [] p = "R" -> << N, E, S, W >>
    [] p = "Q" -> << N, E, S, W, N + E, S + E, S + W, N + W >>
    [] p = "K" -> << N, E, S, W, N + E, S + E, S + W, N + W >>
    [] OTHER -> << >>

\* The three pawn conditions that end a ray without a move.
PawnBlocked(ps, i, d, j, q) ==
  \/ (d = N \/ d = N + N) /\ q # "."
  \/ d = N + N /\ (i < A1 + N \/ ps.board[i + N] # ".")
  \/ /\ (d = N + W \/ d = N + E)
     /\ q = "."
     /\ j # ps.ep /\ j # ps.kp /\ j # ps.kp - 1 /\ j # ps.kp + 1

\* The castling moves without the test that the neighbour of j is the king.
CastlingMovesAnyPiece(ps, i, j) ==
  (IF i = A1 /\ ps.wc[0] THEN << Mv(j + E, j + W) >> ELSE << >>)
  \o
  (IF i = H1 /\ ps.wc[1] THEN << Mv(j + W, j + E) >> ELSE << >>)

\* The castling moves appended after a sliding piece from a corner reached j.
CastlingMoves(ps, i, j) ==
  (IF i = A1 /\ ps.board[j + E] = "K" /\ ps.wc[0] THEN << Mv(j + E, j + W) >> ELSE << >>)
  \o
  (IF i = H1 /\ ps.board[j + W] = "K" /\ ps.wc[1] THEN << Mv(j + W, j + E) >> ELSE << >>)

\* The inner loop of Moves at j goes on to j + d: j is on the board and empty,
\* the piece slides, and no read beside a corner rook leaves the board.
RaySlides(ps, i, p, d, j) ==
  /\ j \in Cells
  /\ ps.board[j] = "."
  /\ p # "P" /\ p # "N" /\ p # "K"
  /\ ~((i = A1 /\ j + E \notin Cells) \/ (i = H1 /\ j + W \notin Cells))

\* The inner loop of Moves at the square j where it ends.
RayEnd(ps, i, p, d, j) ==
  IF j \notin Cells THEN << PanicMove >>
  ELSE
    LET q == ps.board[j] IN
    IF q = " " \/ (q # "." /\ ours(q)) THEN << >>
    ELSE IF p = "P" /\ PawnBlocked(ps, i, d, j, q) THEN << >>
    ELSE IF p = "P" \/ p = "N" \/ p = "K" \/ (q # " " /\ q # "." /\ ~ours(q))
      THEN << Mv(i, j) >>
    ELSE << Mv(i, j), PanicMove >>

\* The inner loop of Moves: the ray of piece p from i in direction d, at j.
RECURSIVE Ray(_, _, _, _, _)
Ray(ps, i, p, d, j) ==
  IF RaySlides(ps, i, p, d, j)
    THEN (<< Mv(i, j) >> \o CastlingMoves(ps, i, j)) \o Ray(ps, i, p, d, j + d)
    ELSE RayEnd(ps, i, p, d, j)

\* The loop over the directions ds[lo..hi] of the piece on i, in order.
RECURSIVE DirMoves(_, _, _, _, _)
DirMoves(ps, i, ds, lo, hi) ==
  CASE lo > hi -> << >>
    [] lo = hi -> Ray(ps, i, ps.board[i], ds[lo], i + ds[lo])
    [] lo < hi -> DirMoves(ps, i, ds, lo, (lo + hi) \div 2)
                    \o DirMoves(ps, i, ds, (lo + hi) \div 2 + 1, hi)

\* The moves of the piece on i, if it is ours.
SquareMoves(ps, i) ==
  IF ours(ps.board[i])
    THEN DirMoves(ps, i, directions(ps.board[i]), 1, Len(directions(ps.board[i])))
    ELSE << >>

\* The loop over the squares of the board, for the indices lo..hi in order.
RECURSIVE MovesRange(_, _, _)
MovesRange(ps, lo, hi) ==
  CASE lo > hi -> << >>
    [] lo = hi -> SquareMoves(ps, lo)
    [] lo < hi -> MovesRange(ps, lo, (lo + hi) \div 2)
                    \o MovesRange(ps, (lo + hi) \div 2 + 1, hi)

\* A panic ends Moves: nothing after the first out-of-range read is produced.
UpToPanic(ms) ==
  IF \E k \in 1..Len(ms) : ms[k] = PanicMove
    THEN SubSeq(ms, 1, CHOOSE k \in 1..Len(ms) :
                         /\ ms[k] = PanicMove
                         /\ \A h \in 1..(k - 1) : ms[h] # PanicMove)
    ELSE ms

Moves(ps) == UpToPanic(MovesRange(ps, 0, BoardLen - 1))

(***************************************************************************)
(* Evaluation                                                              *)
(***************************************************************************)

pstP ==
  << 0, 0, 0, 0, 0, 0, 0, 0, 0, 0,
     0, 0, 0, 0, 0, 0, 0, 0, 0, 0,
     0, 0, 0, 0, 0, 0, 0, 0, 0, 0,
     0, 178, 183, 186, 173, 202, 182, 185, 190, 0,
     0, 107, 129, 121, 144, 140, 131, 144, 107, 0,
     0, 83, 116, 98, 115, 114, 0, 115, 87, 0,
     0, 74, 103, 110, 109, 106, 101, 0, 77, 0,
     0, 78, 109, 105, 89, 90, 98, 103, 81, 0,
     0, 69, 108, 93, 63, 64, 86, 103, 69, 0,
     0, 0, 0, 0, 0, 0, 0, 0, 0, 0,
     0, 0, 0, 0, 0, 0, 0, 0, 0, 0,
     0, 0, 0, 0, 0, 0, 0, 0, 0, 0 >>

pstN ==
  << 0, 0, 0, 0, 0, 0, 0, 0, 0, 0,
     0, 0, 0, 0, 0, 0, 0, 0, 0, 0,
     0, 214, 227, 205, 205, 270, 225, 222, 210, 0,
     0, 277, 274, 380, 244, 284, 342, 276, 266, 0,
     0, 290, 347, 281, 354, 353, 307, 342, 278, 0,
     0, 304, 304, 325, 317, 313, 321, 305, 297, 0,
     0, 279, 285, 311, 301, 302, 315, 282, 0, 0,
     0, 262, 290, 293, 302, 298, 295, 291, 266, 0,
     0, 257, 265, 282, 0, 282, 0, 257, 260, 0,
     0, 206, 257, 254, 256, 261, 245, 258, 211, 0,
     0, 0, 0, 0, 0, 0, 0, 0, 0, 0,
     0, 0, 0, 0, 0, 0, 0, 0, 0, 0 >>

pstB ==
  << 0, 0, 0, 0, 0, 0, 0, 0, 0, 0,
     0, 0, 0, 0, 0, 0, 0, 0, 0, 0,
     0, 261, 242, 238, 244, 297, 213, 283, 270, 0,
     0, 309, 340, 355, 278, 281, 351, 322, 298, 0,
     0, 311, 359, 288, 361, 372, 310, 348, 306, 0,
     0, 345, 337, 340, 354, 346, 345, 335, 330, 0,
     0, 333, 330, 337, 343, 337, 336, 0, 327, 0,
     0, 334, 345, 344, 335, 328, 345, 340, 335, 0,
     0, 339, 340, 331, 326, 327, 326, 340, 336, 0,
     0, 313, 322, 305, 308, 306, 305, 310, 310, 0,
     0, 0, 0, 0, 0, 0, 0, 0, 0, 0,
     0, 0, 0, 0, 0, 0, 0, 0, 0, 0 >>

pstR ==
  << 0, 0, 0, 0, 0, 0, 0, 0, 0, 0,
     0, 0, 0, 0, 0, 0, 0, 0, 0, 0,
     0, 514, 508, 512, 483, 516, 512, 535, 529, 0,
     0, 534, 508, 535, 546, 534, 541, 513, 539, 0,
     0, 498, 514, 507, 512, 524, 506, 504, 494, 0,
     0, 0, 484, 495, 492, 497, 475, 470, 473, 0,
     0, 451, 444, 463, 458, 466, 450, 433, 449, 0,
     0, 437, 451, 437, 454, 454, 444, 453, 433, 0,
     0, 426, 441, 448, 453, 450, 436, 435, 426, 0,
     0, 449, 455, 461, 484, 477, 461, 448, 447, 0,
     0, 0, 0, 0, 0, 0, 0, 0, 0, 0,
     0, 0, 0, 0, 0, 0, 0, 0, 0, 0 >>

pstQ ==
  << 0, 0, 0, 0, 0, 0, 0, 0, 0, 0,
     0, 0, 0, 0, 0, 0, 0, 0, 0, 0,
     0, 935, 930, 921, 825, 998, 953, 1017, 955, 0,
     0, 943, 961, 989, 919, 949, 1005, 986, 953, 0,
     0, 927, 972, 961, 989, 1001, 992, 972, 931, 0,
     0, 930, 913, 951, 946, 954, 949, 916, 923, 0,
     0, 915, 914, 927, 924, 928, 919, 909, 907, 0,
     0, 899, 923, 916, 918, 913, 918, 913, 902, 0,
     0, 893, 911, 0, 910, 914, 914, 908, 891, 0,
     0, 890, 899, 898, 916, 898, 893, 895, 887, 0,
     0, 0, 0, 0, 0, 0, 0, 0, 0, 0,
     0, 0, 0, 0, 0, 0, 0, 0, 0, 0 >>

pstK ==
  << 0, 0, 0, 0, 0, 0, 0, 0, 0, 0,
     0, 0, 0, 0, 0, 0, 0, 0, 0, 0,
     0, 60004, 60054, 60047, 59901, 59901, 60060, 60083, 59938, 0,
     0, 59968, 60010, 60055, 60056, 60056, 60055, 60010, 60003, 0,
     0, 59938, 60012, 59943, 60044, 59933, 60028, 60037, 59969, 0,
     0, 59945, 60050, 60011, 59996, 59981, 60013, 0, 59951, 0,
     0, 59945, 59957, 59948, 59972, 59949, 59953, 59992, 59950, 0,
     0, 59953, 59958, 59957, 59921, 59936, 59968, 59971, 59968, 0,
     0, 59996, 60003, 59986, 59950, 59943, 59982, 60013, 60004, 0,
     0, 60017, 60030, 59997, 59986, 60006, 59999, 60040, 60018, 0,
     0, 0, 0, 0, 0, 0, 0, 0, 0, 0,
     0, 0, 0, 0, 0, 0, 0, 0, 0, 0 >>
pst(p, sq) ==
  CASE p = "P" -> pstP[sq + 1]
    [] p = "N" -> pstN[sq + 1]
    [] p = "B" -> pstB[sq + 1]
    [] p = "R" -> pstR[sq + 1]
    [] p = "Q" -> pstQ[sq + 1]
    [] p = "K" -> pstK[sq + 1]
    [] OTHER -> 0

\* The terms Position.value adds up, each 0 when its condition fails.
CaptureTerm(q, j) ==
  IF q # "." /\ q # " " /\ ~ours(q) THEN pst(PieceFlip(q), SquareFlip(j)) ELSE 0

KingPassantTerm(kp, j) ==
  IF abs(j - kp) < 2 THEN pst("K", SquareFlip(j)) ELSE 0

CastlingTerm(p, i, j) ==
  IF p = "K" /\ abs(i - j) = 2
    THEN pst("R", GoDiv(i + j, 2)) - (IF j < i THEN pst("R", A1) ELSE pst("R", H1))
    ELSE 0

PromotionTerm(p, j) ==
  IF p = "P" /\ A8 <= j /\ j <= H8 THEN pst("Q", j) - pst("P", j) ELSE 0

EnPassantTerm(p, j, ep) ==
  IF p = "P" /\ j = ep THEN pst("P", SquareFlip(j + S)) ELSE 0

value(ps, m) ==
  (pst(ps.board[m.from], m.to) - pst(ps.board[m.from], m.from))
    + CaptureTerm(ps.board[m.to], m.to)
    + KingPassantTerm(ps.kp, m.to)
    + CastlingTerm(ps.board[m.from], m.from, m.to)
    + PromotionTerm(ps.board[m.from], m.to)
    + EnPassantTerm(ps.board[m.from], m.to, ps.ep)

(***************************************************************************)
(* Applying a move                                                         *)
(***************************************************************************)

Put(b, sq, p) == [b EXCEPT ![sq] = p]

\* The assignments of Move to np.board without the promotion to a queen.
CellAfterMoveNoPromotion(ps, i, j, p, sq, origin) ==
  IF p = "P" /\ j = ps.ep /\ sq = j + S THEN "."
  ELSE IF p = "K" /\ abs(j - i) = 2 /\ sq = GoDiv(i + j, 2) THEN "R"
  ELSE IF p = "K" /\ abs(j - i) = 2 /\ sq = (IF j < i THEN H1 ELSE A1) THEN "."
  ELSE IF sq = i THEN origin
  ELSE IF sq = j THEN p
  ELSE ps.board[sq]

\* The piece on sq after the assignments of Move to np.board, the last
\* assignment to a square deciding; origin is what the origin is left with.
CellAfterMove(ps, i, j, p, sq, origin) ==
  IF p = "P" /\ j = ps.ep /\ sq = j + S THEN "."
  ELSE IF p = "P" /\ A8 <= j /\ j <= H8 /\ sq = j THEN "Q"
  ELSE IF p = "K" /\ abs(j - i) = 2 /\ sq = GoDiv(i + j, 2) THEN "R"
  ELSE IF p = "K" /\ abs(j - i) = 2 /\ sq = (IF j < i THEN H1 ELSE A1) THEN "."
  ELSE IF sq = i THEN origin
  ELSE IF sq = j THEN p
  ELSE ps.board[sq]

\* The board of Move with the origin overwritten by ' ' instead of '.'.
MoveBoardBlankOrigin(ps, m) ==
  [sq \in Cells |-> CellAfterMove(ps, m.from, m.to, ps.board[m.from], sq, " ")]

MoveBoard(ps, m) ==
  [sq \in Cells |-> CellAfterMove(ps, m.from, m.to, ps.board[m.from], sq, ".")]

\* np.wc and np.bc before the flip.
MoveRights(ps, m) ==
  [wc |-> [k \in 0..1 |->
             IF (k = 0 /\ m.from = A1) \/ (k = 1 /\ m.from = H1) \/ ps.board[m.from] = "K"
             THEN FALSE ELSE ps.wc[k]],
   bc |-> [k \in 0..1 |->
             IF (k = 1 /\ m.to = A8) \/ (k = 0 /\ m.to = H8)
             THEN FALSE ELSE ps.bc[k]]]

\* Position.Move: the successor snapshot, already flipped.
Move(ps, m) ==
  PositionFlip(
    [board |-> MoveBoard(ps, m),
     score |-> ps.score + value(ps, m),
     wc |-> MoveRights(ps, m).wc,
     bc |-> MoveRights(ps, m).bc,
     ep |-> IF ps.board[m.from] = "P" /\ m.to - m.from = 2 * N THEN m.from + N ELSE 0,
     kp |-> 0])

(***************************************************************************)
(* FEN                                                                     *)
(***************************************************************************)

\* A FEN string is given split as strings.Split leaves it: the rows of the
\* first field, each a sequence of characters, and the second field.
Digit(c) ==
  CASE c = "1" -> 1 [] c = "2" -> 2 [] c = "3" -> 3 [] c = "4" -> 4
    [] c = "5" -> 5 [] c = "6" -> 6 [] c = "7" -> 7 [] c = "8" -> 8
    [] OTHER -> 0

RECURSIVE FenDots(_, _, _)
FenDots(b, index, n) ==
  IF n = 0 THEN [b |-> b, index |-> index, err |-> ""]
  ELSE IF index \notin Cells THEN [b |-> b, index |-> index, err |-> "panic"]
  ELSE FenDots(Put(b, index, "."), index + 1, n - 1)

\* The loop over the characters of one row, from the k-th character.
RECURSIVE FenRow(_, _, _, _)
FenRow(b, index, row, k) ==
  IF k > Len(row) THEN [b |-> b, index |-> index, err |-> ""]
  ELSE
    LET c == row[k] IN
    IF Digit(c) > 0
      THEN LET r == FenDots(b, index, Digit(c)) IN
           IF r.err # "" THEN r ELSE FenRow(r.b, r.index, row, k + 1)
    ELSE IF PieceValue(c) = 0 /\ PieceValue(PieceFlip(c)) = 0
      THEN [b |-> b, index |-> index, err |-> "invalid piece value"]
    ELSE IF index \notin Cells THEN [b |-> b, index |-> index, err |-> "panic"]
    ELSE FenRow(Put(b, index, c), index + 1, row, k + 1)

\* The loop over the eight rows, from row i.
RECURSIVE FenRows(_, _, _)
FenRows(b, rows, i) ==
  IF i >= 8 THEN [b |-> b, err |-> ""]
  ELSE
    LET r == FenRow(b, i * 10 + 21, rows[i + 1], 1) IN
    IF r.err # "" THEN [b |-> r.b, err |-> r.err]
    ELSE IF r.index % 10 # 9 THEN [b |-> r.b, err |-> "invalid row length"]
    ELSE FenRows(r.b, rows, i + 1)

FEN(f) ==
  IF Len(f.rows) # 8
    THEN [b |-> [i \in Cells |-> NoPiece], err |-> "FEN should have 8 rows"]
  ELSE
    LET r == FenRows([i \in Cells |-> " "], f.rows, 0) IN
    IF r.err # "" THEN r
    ELSE IF f.side = "b" THEN [b |-> BoardFlip(r.b), err |-> ""]
    ELSE r

(***************************************************************************)
(* The shells: initial snapshots                                           *)
(***************************************************************************)

\* start(): "rnbqkbnr/pppppppp/8/8/8/8/PPPPPPPP/RNBKQBNR"
StartFen ==
  [rows |-> << << "r", "n", "b", "q", "k", "b", "n", "r" >>,
               << "p", "p", "p", "p", "p", "p", "p", "p" >>,
               << "8" >>, << "8" >>, << "8" >>, << "8" >>,
               << "P", "P", "P", "P", "P", "P", "P", "P" >>,
               << "R", "N", "B", "K", "Q", "B", "N", "R" >> >>,
   side |-> ""]

start == PositionOf(FEN(StartFen).b)

\* Inputs of "position fen ...": small boards on which promotion, en-passant
\* capture, king capture and castling geometry come within a few plies.
\* "7K/3P4/8/8/8/8/1p6/k7"
PromoFen(sd) ==
  [rows |-> << << "7", "K" >>, << "3", "P", "4" >>, << "8" >>, << "8" >>,
               << "8" >>, << "8" >>, << "1", "p", "6" >>, << "k", "7" >> >>,
   side |-> sd]

\* "4k3/8/8/8/3p4/8/3PP3/4K3"
EnPassantFen(sd) ==
  [rows |-> << << "4", "k", "3" >>, << "8" >>, << "8" >>, << "8" >>,
               << "3", "p", "4" >>, << "8" >>, << "3", "P", "P", "3" >>,
               << "4", "K", "3" >> >>,
   side |-> sd]

\* "4k3/4R3/8/8/8/8/8/4K3"
KingCaptureFen(sd) ==
  [rows |-> << << "4", "k", "3" >>, << "4", "R", "3" >>, << "8" >>, << "8" >>,
               << "8" >>, << "8" >>, << "8" >>, << "4", "K", "3" >> >>,
   side |-> sd]

\* "r3k2r/8/8/8/8/8/8/R3K2R"
CastlingFen(sd) ==
  [rows |-> << << "r", "3", "k", "2", "r" >>, << "8" >>, << "8" >>, << "8" >>,
               << "8" >>, << "8" >>, << "8" >>, << "R", "3", "K", "2", "R" >> >>,
   side |-> sd]

Sides == {"w", "b"}

FenInputs ==
  {StartFen}
    \cup {PromoFen(sd) : sd \in Sides}
    \cup {EnPassantFen(sd) : sd \in Sides}
    \cup {KingCaptureFen(sd) : sd \in Sides}
    \cup {CastlingFen(sd) : sd \in Sides}

\* Position{board: b} for the boards FEN produces without an error.
InitialSnapshots == {PositionOf(FEN(f).b) : f \in {g \in FenInputs : FEN(g).err = ""}}

(***************************************************************************)
(* Playing: Position.Move on a move of Moves, Position.Flip                *)
(***************************************************************************)

MaxPlies == 2

\* The shell before any command: white := true, white to move, nothing printed.
IdleUci == [white |-> TRUE, whiteToMove |-> TRUE, bestmove |-> NoMove]

\* The history of a Searcher that stored nothing yet.
NoHistory == [replaced |-> {}, evicted |-> << >>]

EmptyBoard == [i \in Cells |-> IF i \in Inner THEN "." ELSE " "]

IdleSearch ==
  /\ tp = << >>
  /\ tpOther = 0
  /\ nodes = 0
  /\ pc = "idle"
  /\ depth = 0
  /\ lower = 0
  /\ upper = 0
  /\ score = 0
  /\ maxNodes = 0
  /\ probes = 0
  /\ result = NoMove
  /\ hist = NoHistory

IdleBoard ==
  /\ brd = EmptyBoard
  /\ brd0 = EmptyBoard
  /\ flips = 0

searchVars == << tp, tpOther, nodes, pc, depth, lower, upper, score, maxNodes, probes, result, hist >>
boardVars == << brd, brd0, flips >>

InitGame ==
  /\ pos \in InitialSnapshots
  /\ last = [op |-> "Init", prev |-> pos, m |-> NoMove]
  /\ plies = 0
  /\ uci = IdleUci
  /\ IdleBoard
  /\ IdleSearch

\* Position.Move applied to one of the moves Moves returns.
MoveStep ==
  /\ LET ms == Moves(pos) IN
     \E k \in 1..Len(ms) :
       /\ ms[k] # PanicMove
       /\ pos' = Move(pos, ms[k])
       /\ last' = [op |-> "Move", prev |-> pos, m |-> ms[k]]
  /\ plies' = plies + 1
  /\ UNCHANGED << boardVars, searchVars, uci >>

\* Position.Flip applied to the held snapshot.
FlipStep ==
  /\ pos' = PositionFlip(pos)
  /\ last' = [op |-> "Flip", prev |-> pos, m |-> NoMove]
  /\ plies' = plies + 1
  /\ UNCHANGED << boardVars, searchVars, uci >>

\* The shell applies a move returned by Moves (cli, bound).
DoMove == pc = "idle" /\ plies < MaxPlies /\ MoveStep

\* The turn is passed: Position.Flip (the null move of bound, cli's display).
DoFlip == pc = "idle" /\ plies < MaxPlies /\ FlipStep

NextGame == DoMove

SpecGame == InitGame /\ [][NextGame]_vars

NextNull == DoMove \/ DoFlip

SpecNull == InitGame /\ [][NextNull]_vars

(***************************************************************************)
(* Move, Flip and Moves as functions of an arbitrary snapshot              *)
(***************************************************************************)

\* "r3k2r/8/8/8/8/8/8/R6R": the mover's king is placed on one of KingSquares.
RooksFen ==
  [rows |-> << << "r", "3", "k", "2", "r" >>, << "8" >>, << "8" >>, << "8" >>,
               << "8" >>, << "8" >>, << "8" >>, << "R", "6", "R" >> >>,
   side |-> "w"]

\* "8/8/8/8/3Q4/8/8/4K3": the opponent's king is placed on one of PreySquares.
QueenFen ==
  [rows |-> << << "8" >>, << "8" >>, << "8" >>, << "8" >>,
               << "3", "Q", "4" >>, << "8" >>, << "8" >>, << "4", "K", "3" >> >>,
   side |-> "w"]

KingSquares == {72, 82, 83, 87, 92, 93, 94, 95, 96, 97}
PreySquares == {24, 31, 42, 53, 62, 68, 74, 84}

AnyBoards ==
  {Put(FEN(RooksFen).b, sq, "K") : sq \in KingSquares}
    \cup {Put(FEN(QueenFen).b, sq, "k") : sq \in PreySquares}
    \cup {FEN(f).b : f \in FenInputs \ {StartFen}}

AllRights == [k \in 0..1 |-> TRUE]
AnyRights == [0..1 -> BOOLEAN]

\* ep and kp: none (0), what Move leaves (119), a double step's target (44),
\* a king-passant square (45).
AnyTargets ==
  {[ep |-> 0, kp |-> 0], [ep |-> 119, kp |-> 119], [ep |-> 44, kp |-> 0], [ep |-> 0, kp |-> 45]}

AnyScores == {0, 120}

AnySnapshots ==
  {[board |-> b, score |-> sc, wc |-> w, bc |-> x, ep |-> t.ep, kp |-> t.kp] :
     b \in AnyBoards, sc \in AnyScores, w \in AnyRights,
     x \in {NoRights, AllRights}, t \in AnyTargets}

InitAny ==
  /\ pos \in AnySnapshots
  /\ last = [op |-> "Init", prev |-> pos, m |-> NoMove]
  /\ plies = 0
  /\ uci = IdleUci
  /\ IdleBoard
  /\ IdleSearch

ApplyMove == pc = "idle" /\ last.op = "Init" /\ MoveStep

ApplyFlip == pc = "idle" /\ last.op = "Init" /\ FlipStep

NextAny == ApplyMove \/ ApplyFlip

SpecAny == InitAny /\ [][NextAny]_vars

(***************************************************************************)
(* Moves and Move on boards with one pawn of the mover                     *)
(***************************************************************************)

\* "4k3/8/8/8/8/8/8/4K3"
KingsFen ==
  [rows |-> << << "4", "k", "3" >>, << "8" >>, << "8" >>, << "8" >>,
               << "8" >>, << "8" >>, << "8" >>, << "4", "K", "3" >> >>,
   side |-> "w"]

KingsBoard == FEN(KingsFen).b

\* The pawn stands on any inner square but the kings' squares.
PawnSquares == Inner \ {25, 95}

\* Pieces put in the pawn's way: nothing, or a knight of either side.
Blockers == {".", "n", "N"}

\* The board with the mover's pawn on i, c one step and c2 two steps ahead
\* of it (where those squares are free inner squares).
PawnBoard(i, c, c2) ==
  [sq \in Cells |->
     IF sq = i THEN "P"
     ELSE IF sq = i + N /\ sq \in PawnSquares THEN c
     ELSE IF sq = i + N + N /\ sq \in PawnSquares THEN c2
     ELSE KingsBoard[sq]]

PawnBoards == {PawnBoard(i, c, c2) : i \in PawnSquares, c \in Blockers, c2 \in Blockers}

InitPawn ==
  /\ pos \in {PositionOf(b) : b \in PawnBoards}
  /\ last = [op |-> "Init", prev |-> pos, m |-> NoMove]
  /\ plies = 0
  /\ uci = IdleUci
  /\ IdleBoard
  /\ IdleSearch

NextPawn == ApplyMove

SpecPawn == InitPawn /\ [][NextPawn]_vars

(***************************************************************************)
(* Board.Flip as a function of an arbitrary board                          *)
(***************************************************************************)

MaxFlips == 2

\* Boards of 120 piece codes: a base board with one cell overwritten by any
\* of the 14 codes.
BoardInputs ==
  {Put(b, k, c) : b \in {EmptyBoard, start.board, FEN(PromoFen("w")).b},
                  k \in Cells, c \in PieceCodes}

InitBoard ==
  /\ brd \in BoardInputs
  /\ brd0 = brd
  /\ flips = 0
  /\ pos = start
  /\ last = [op |-> "Init", prev |-> pos, m |-> NoMove]
  /\ plies = 0
  /\ uci = IdleUci
  /\ IdleSearch

FlipBoard ==
  /\ flips < MaxFlips
  /\ brd' = BoardFlip(brd)
  /\ flips' = flips + 1
  /\ UNCHANGED << brd0, pos, last, plies, searchVars, uci >>

NextBoard == FlipBoard

SpecBoard == InitBoard /\ [][NextBoard]_vars

(***************************************************************************)
(* Searcher                                                                *)
(***************************************************************************)

MateValue == PieceValue("K") + 10 * PieceValue("Q")
MaxTableSize == 10000000
EvalRoughness == 13

\* The zero entry a lookup of a missing key returns.
NoEntry == [depth |-> 0, score |-> 0, gamma |-> 0, move |-> NoMove]

\* The value of a Searcher: the entries of tp the search reaches (tp), the
\* number of its other entries (other), the node counter, and the history of
\* its stores (h).
SearcherOf(t, o, n, h) == [tp |-> t, other |-> o, nodes |-> n, hist |-> h]

\* len(s.tp) after s.tp[pos] = entry{...}
SizeAfterStore(sr, ps) == Cardinality((DOMAIN sr.tp) \cup {ps}) + sr.other

\* The assignment s.tp[pos] = entry{...}; in the history, what it did to an
\* entry the key already had.
Assign(sr, ps, e) ==
  [sr EXCEPT !.tp = (ps :> e) @@ sr.tp,
             !.hist.replaced =
               IF ps \in DOMAIN sr.tp
                 THEN @ \cup {[old |-> sr.tp[ps].depth, new |-> e.depth,
                               high |-> e.score >= e.gamma]}
                 ELSE @]

\* The table replaced by an empty one; in the history, the size it had.
Clear(sr, size) ==
  [sr EXCEPT !.tp = << >>, !.other = 0, !.hist.evicted = Append(@, size)]

\* The store with a table of MaxTableSize + 1 entries left as it is.
StoreClearLate(sr, ps, e) ==
  IF SizeAfterStore(sr, ps) > MaxTableSize + 1
    THEN Clear(sr, SizeAfterStore(sr, ps))
    ELSE Assign(sr, ps, e)

\* s.tp[pos] = entry{...}; a table longer than MaxTableSize is replaced by an
\* empty one.
Store(sr, ps, e) ==
  IF SizeAfterStore(sr, ps) > MaxTableSize
    THEN Clear(sr, SizeAfterStore(sr, ps))
    ELSE Assign(sr, ps, e)

\* The entry is deep enough and lies on the same side of gamma as before.
EntryUsable(e, gamma, d) ==
  /\ e.depth >= d
  /\ \/ e.score < e.gamma /\ e.score < gamma
     \/ e.score >= e.gamma /\ e.score >= gamma

RECURSIVE bound(_, _, _, _)
RECURSIVE MoveLoop(_, _, _, _, _, _, _, _)

\* s.nodes++
Visit(sr) == [sr EXCEPT !.nodes = @ + 1]

\* The end of bound: the stalemate correction has given bestScore; the entry
\* is stored unless an entry found at the start (in sr0) is to be kept.
Remember(sr0, ps, gamma, d, lp, bestScore) ==
  [sr |-> IF ps \notin DOMAIN sr0.tp \/ (d >= sr0.tp[ps].depth /\ bestScore >= gamma)
            THEN Store(lp.sr, ps, [depth |-> d, score |-> bestScore,
                                   gamma |-> gamma, move |-> lp.bestMove])
            ELSE lp.sr,
   score |-> bestScore]

\* bound after its loop over the moves ended with lp.
AfterMoves(sr0, ps, gamma, d, nullScore, lp) ==
  IF d <= 0 /\ lp.bestScore < nullScore THEN [sr |-> lp.sr, score |-> nullScore]
  ELSE Remember(sr0, ps, gamma, d, lp,
                IF d > 0 /\ lp.bestScore <= -MateValue /\ nullScore > -MateValue
                  THEN 0 ELSE lp.bestScore)

\* bestScore, bestMove := -3*MateValue, Move{} before the loop over the
\* moves; done says that the loop was left by a break.
LoopStart(sr) ==
  [sr |-> sr, bestScore |-> -3 * MateValue, bestMove |-> NoMove, done |-> FALSE]

\* bound after the null move returned nul.
AfterNull(sr0, ps, gamma, d, nul) ==
  IF -nul.score >= gamma THEN [sr |-> nul.sr, score |-> -nul.score]
  ELSE MoveLoop(sr0, LoopStart(nul.sr), ps, Moves(ps), 1, gamma, d, -nul.score)

\* The body of the loop after the call for move m returned r.
AfterChild(st, m, gamma, r) ==
  [sr |-> r.sr,
   bestScore |-> IF -r.score > st.bestScore THEN -r.score ELSE st.bestScore,
   bestMove |-> IF -r.score > st.bestScore THEN m ELSE st.bestMove,
   done |-> -r.score >= gamma]

\* The quiescence search leaves the loop at move m.
Quiet(ps, m, d) == d <= 0 /\ value(ps, m) < 150

\* The loop of bound over Moves from the k-th move, with the searcher and the
\* best score and move so far in st, and the rest of bound after the loop.
MoveLoop(sr0, st, ps, ms, k, gamma, d, nullScore) ==
  CASE st.done -> AfterMoves(sr0, ps, gamma, d, nullScore, st)
    [] ~st.done /\ k > Len(ms) -> AfterMoves(sr0, ps, gamma, d, nullScore, st)
    [] ~st.done /\ k <= Len(ms) /\ Quiet(ps, ms[k], d) ->
         AfterMoves(sr0, ps, gamma, d, nullScore, st)
    [] OTHER ->
         MoveLoop(sr0,
                  AfterChild(st, ms[k], gamma,
                             bound(st.sr, Move(ps, ms[k]), 1 - gamma, d - 1)),
                  ps, ms, k + 1, gamma, d, nullScore)

\* bound returns at once: the table has a usable entry, or a king is gone.
Known(sr, ps, gamma, d) ==
  \/ ps \in DOMAIN sr.tp /\ EntryUsable(sr.tp[ps], gamma, d)
  \/ abs(ps.score) >= MateValue

\* What bound returns at once.
KnownScore(sr, ps, gamma, d) ==
  IF ps \in DOMAIN sr.tp /\ EntryUsable(sr.tp[ps], gamma, d)
    THEN sr.tp[ps].score
    ELSE ps.score

\* Searcher.bound: the searcher after the call and the score returned.
bound(sr, ps, gamma, d) ==
  IF Known(sr, ps, gamma, d)
    THEN [sr |-> Visit(sr), score |-> KnownScore(sr, ps, gamma, d)]
  ELSE IF d > 0
    THEN AfterNull(sr, ps, gamma, d,
                   bound(Visit(sr), PositionFlip(ps), 1 - gamma, d - 3))
    ELSE AfterNull(sr, ps, gamma, d, [sr |-> Visit(sr), score |-> -ps.score])

\* Search: s.nodes = 0 and the first depth iteration is entered.
SearchStart(mn) ==
  /\ pc = "idle"
  /\ plies < MaxPlies
  /\ pc' = "window"
  /\ maxNodes' = mn
  /\ nodes' = 0
  /\ depth' = 1
  /\ lower' = -3 * MateValue
  /\ upper' = 3 * MateValue
  /\ score' = 0
  /\ probes' = 0
  /\ result' = NoMove
  /\ plies' = plies + 1
  /\ UNCHANGED << pos, last, boardVars, tp, tpOther, hist, uci >>

\* The pass of the window loop with lower raised only by a score above gamma.
ProbeStrict(r) ==
  LET gamma == GoDiv(lower + upper + 1, 2) IN
  /\ score' = r.score
  /\ lower' = IF r.score > gamma THEN r.score ELSE lower
  /\ upper' = IF r.score < gamma THEN r.score ELSE upper
  /\ tp' = r.sr.tp
  /\ tpOther' = r.sr.other
  /\ nodes' = r.sr.nodes
  /\ hist' = r.sr.hist
  /\ probes' = probes + 1
  /\ UNCHANGED << pos, last, plies, boardVars, pc, depth, maxNodes, result, uci >>

\* One pass of the window loop, given what the call of bound left behind.
Probe(r) ==
  LET gamma == GoDiv(lower + upper + 1, 2) IN
  /\ score' = r.score
  /\ lower' = IF r.score >= gamma THEN r.score ELSE lower
  /\ upper' = IF r.score < gamma THEN r.score ELSE upper
  /\ tp' = r.sr.tp
  /\ tpOther' = r.sr.other
  /\ nodes' = r.sr.nodes
  /\ hist' = r.sr.hist
  /\ probes' = probes + 1
  /\ UNCHANGED << pos, last, plies, boardVars, pc, depth, maxNodes, result, uci >>

SearchProbe ==
  /\ pc = "window"
  /\ lower < upper - EvalRoughness
  /\ Probe(bound(SearcherOf(tp, tpOther, nodes, hist), pos,
                 GoDiv(lower + upper + 1, 2), depth))

\* The end of a depth iteration with the budget compared by > instead of >=.
SearchDepthEndLateBudget ==
  /\ pc = "window"
  /\ ~(lower < upper - EvalRoughness)
  /\ IF abs(score) >= MateValue \/ nodes > maxNodes \/ depth + 1 >= 99
       THEN /\ pc' = "done"
            /\ result' = IF pos \in DOMAIN tp THEN tp[pos].move ELSE NoEntry.move
            /\ UNCHANGED << depth, lower, upper, score, probes >>
       ELSE /\ depth' = depth + 1
            /\ lower' = -3 * MateValue
            /\ upper' = 3 * MateValue
            /\ score' = 0
            /\ probes' = 0
            /\ UNCHANGED << pc, result >>
  /\ UNCHANGED << pos, last, plies, boardVars, tp, tpOther, nodes, maxNodes, hist, uci >>

\* The window loop has ended: Search returns or enters the next depth.
SearchDepthEnd ==
  /\ pc = "window"
  /\ ~(lower < upper - EvalRoughness)
  /\ IF abs(score) >= MateValue \/ nodes >= maxNodes \/ depth + 1 >= 99
       THEN /\ pc' = "done"
            /\ result' = IF pos \in DOMAIN tp THEN tp[pos].move ELSE NoEntry.move
            /\ UNCHANGED << depth, lower, upper, score, probes >>
       ELSE /\ depth' = depth + 1
            /\ lower' = -3 * MateValue
            /\ upper' = 3 * MateValue
            /\ score' = 0
            /\ probes' = 0
            /\ UNCHANGED << pc, result >>
  /\ UNCHANGED << pos, last, plies, boardVars, tp, tpOther, nodes, maxNodes, hist, uci >>

\* The shell takes the move: the next Search starts from the held position.
SearchReturn ==
  /\ pc = "done"
  /\ pc' = "idle"
  /\ UNCHANGED << pos, last, plies, boardVars, tp, tpOther, nodes, depth,
                  lower, upper, score, maxNodes, probes, result, hist, uci >>

(***************************************************************************)
(* Searching from the positions the shells hold                            *)
(***************************************************************************)

MidBudget == 60
Budgets == {0, MidBudget}

MaxSlack == 8

\* The number of entries left in the table by earlier searches of other games.
TableFills == {0} \cup {MaxTableSize - k : k \in 0..MaxSlack}

SearchFens == {StartFen, PromoFen("w"), KingCaptureFen("w"), KingCaptureFen("b"), EnPassantFen("w")}

SearchSnapshots == {PositionOf(FEN(f).b) : f \in SearchFens}

InitSearch ==
  /\ pos \in SearchSnapshots
  /\ last = [op |-> "Init", prev |-> pos, m |-> NoMove]
  /\ plies = 0
  /\ uci = IdleUci
  /\ IdleBoard
  /\ tp = << >>
  /\ tpOther \in TableFills
  /\ nodes = 0
  /\ pc = "idle"
  /\ depth = 0
  /\ lower = 0
  /\ upper = 0
  /\ score = 0
  /\ maxNodes = 0
  /\ probes = 0
  /\ result = NoMove
  /\ hist = NoHistory

NextSearch ==
  \/ \E mn \in Budgets : SearchStart(mn)
  \/ SearchProbe
  \/ SearchDepthEnd
  \/ SearchReturn

SpecSearch == InitSearch /\ [][NextSearch]_vars

(***************************************************************************)
(* The loops of Search over any result of bound                            *)
(***************************************************************************)

\* Scores bound may return: scores outside the first window, mate scores, and
\* scores at and around the roughness of the window.
BoundScores ==
  {-4 * MateValue, -MateValue, 0, EvalRoughness + 1, MateValue, 4 * MateValue}

\* The budget the shells pass (10000), no budget, and a budget a few probes
\* exhaust.
SmallBudget == 7
LoopBudgets == {0, SmallBudget, 10000}

InitLoop ==
  /\ pos = start
  /\ last = [op |-> "Init", prev |-> pos, m |-> NoMove]
  /\ plies = MaxPlies - 1
  /\ uci = IdleUci
  /\ IdleBoard
  /\ IdleSearch

\* One pass of the window loop in which bound visits one node, leaves the
\* table as it is and returns any of BoundScores.
SearchProbeAny ==
  /\ pc = "window"
  /\ lower < upper - EvalRoughness
  /\ \E sc \in BoundScores :
       Probe([sr |-> SearcherOf(tp, tpOther, nodes + 1, hist), score |-> sc])

NextLoop ==
  \/ \E mn \in LoopBudgets : SearchStart(mn)
  \/ SearchProbeAny
  \/ SearchDepthEnd
  \/ SearchReturn

SpecLoop == InitLoop /\ [][NextLoop]_vars

(***************************************************************************)
(* Sequences of calls of bound on a held snapshot                          *)
(***************************************************************************)

MaxCalls == 2

\* Windows far below, at and far above the scores of the snapshots.
BoundGammas == {-5000, 0, 5000}

\* Depths of the calls: 1 (one null move, at depth -2) and 4 (the null move
\* at depth 1 makes its own null move, at depth -2, on the snapshot itself).
BoundDepths == {1, 4}

\* The calls made: at depth 4 with the windows the null move decides.
BoundCalls == {c \in BoundGammas \X BoundDepths : c[2] = 1 \/ c[1] # 0}

BoundFens == {PromoFen("w"), KingCaptureFen("b"), EnPassantFen("w")}

BoundSnapshots == {PositionOf(FEN(f).b) : f \in BoundFens}

InitBound ==
  /\ pos \in BoundSnapshots
  /\ last = [op |-> "Init", prev |-> pos, m |-> NoMove]
  /\ plies = 0
  /\ uci = IdleUci
  /\ IdleBoard
  /\ tp = << >>
  /\ tpOther \in TableFills
  /\ nodes = 0
  /\ pc = "idle"
  /\ depth = 0
  /\ lower = 0
  /\ upper = 0
  /\ score = 0
  /\ maxNodes = 0
  /\ probes = 0
  /\ result = NoMove
  /\ hist = NoHistory

\* s.bound(pos, gamma, depth) on the held snapshot; depth and score keep the
\* depth of the call and the score it returned.
BoundCall ==
  /\ pc = "idle"
  /\ plies < MaxCalls
  /\ \E c \in BoundCalls :
       LET r == bound(SearcherOf(tp, tpOther, nodes, hist), pos, c[1], c[2]) IN
       /\ tp' = r.sr.tp
       /\ tpOther' = r.sr.other
       /\ nodes' = r.sr.nodes
       /\ hist' = r.sr.hist
       /\ score' = r.score
       /\ depth' = c[2]
  /\ plies' = plies + 1
  /\ last' = [op |-> "bound", prev |-> pos, m |-> NoMove]
  /\ UNCHANGED << pos, boardVars, pc, lower, upper, maxNodes, probes, result, uci >>

NextBound == BoundCall

SpecBound == InitBound /\ [][NextBound]_vars

(***************************************************************************)
(* The uci shell                                                           *)
(***************************************************************************)

\* Square.String: " abcdefgh "[s%10] and "  87654321  "[s/10]
FileChars == << " ", "a", "b", "c", "d", "e", "f", "g", "h", " " >>
RankChars == << " ", " ", "8", "7", "6", "5", "4", "3", "2", "1", " ", " " >>

SquareString(sq) == << FileChars[(sq % 10) + 1], RankChars[(sq \div 10) + 1] >>

\* The map sqr of uci: sqr[i.String()] = i for i = 0..119 in turn, so the
\* last square of a name stays; a missing name gives the zero square.
sqr(name) ==
  LET named == {i \in Cells : SquareString(i) = name} IN
  IF named = {} THEN 0 ELSE CHOOSE i \in named : \A k \in named : k <= i

\* Move{from: sqr[s[0:2]], to: sqr[s[2:4]]}
UciMove(str) == Mv(sqr(SubSeq(str, 1, 2)), sqr(SubSeq(str, 3, 4)))

\* The loop of "position startpos moves": the moves from index i on, every
\* second one flipped, applied to ps.
RECURSIVE UciMoves(_, _, _)
UciMoves(ps, strs, i) ==
  IF i >= Len(strs) THEN ps
  ELSE LET m == UciMove(strs[i + 1]) IN
       UciMoves(Move(ps, IF i % 2 # 0 THEN Mv(SquareFlip(m.from), SquareFlip(m.to)) ELSE m),
                strs, i + 1)

e2e4 == << "e", "2", "e", "4" >>
e7e5 == << "e", "7", "e", "5" >>
g1f3 == << "g", "1", "f", "3" >>
d7d5 == << "d", "7", "d", "5" >>

\* Inputs of "position startpos moves ...".
UciMoveLists == {<< e2e4 >>, << g1f3 >>, << e2e4, e7e5 >>, << g1f3, d7d5 >>, << e2e4, d7d5, g1f3 >>}

\* Inputs of "position fen ...", with and without the side to move.
UciFens == {PromoFen(sd) : sd \in Sides \cup {""}} \cup {KingCaptureFen(sd) : sd \in Sides}

\* The budget of the searches of "go" (10000 in uci), cut down.
GoBudget == 0

InitUci ==
  /\ pos = start
  /\ last = [op |-> "Init", prev |-> pos, m |-> NoMove]
  /\ plies = 0
  /\ uci = IdleUci
  /\ IdleBoard
  /\ IdleSearch

\* "ucinewgame" or "position startpos"
UciNewGame ==
  /\ pc = "idle"
  /\ plies < MaxPlies
  /\ pos' = start
  /\ uci' = [uci EXCEPT !.white = TRUE, !.whiteToMove = TRUE]
  /\ last' = [op |-> "ucinewgame", prev |-> pos, m |-> NoMove]
  /\ plies' = plies + 1
  /\ UNCHANGED << boardVars, searchVars >>

\* "position startpos moves ...": every Position.Move passes the turn.
UciStartposMoves ==
  /\ pc = "idle"
  /\ plies < MaxPlies
  /\ \E strs \in UciMoveLists :
       /\ pos' = UciMoves(start, strs, 0)
       /\ uci' = [uci EXCEPT !.white = (Len(strs) % 2 = 0),
                             !.whiteToMove = (Len(strs) % 2 = 0)]
  /\ last' = [op |-> "position startpos moves", prev |-> pos, m |-> NoMove]
  /\ plies' = plies + 1
  /\ UNCHANGED << boardVars, searchVars >>

\* "position fen ...": FEN gives the board as the side to move sees it,
\* flipped when the second field is "b"; white is not assigned.
UciPositionFen ==
  /\ pc = "idle"
  /\ plies < MaxPlies
  /\ \E f \in UciFens :
       /\ pos' = PositionOf(FEN(f).b)
       /\ uci' = [uci EXCEPT !.whiteToMove = (f.side # "b")]
  /\ last' = [op |-> "position fen", prev |-> pos, m |-> NoMove]
  /\ plies' = plies + 1
  /\ UNCHANGED << boardVars, searchVars >>

\* "go", after the Search that SearchStart began returned: the move is
\* flipped unless white, and printed.
UciBestMove ==
  /\ pc = "done"
  /\ pc' = "idle"
  /\ uci' = [uci EXCEPT !.bestmove =
               IF ~uci.white THEN Mv(SquareFlip(result.from), SquareFlip(result.to))
                             ELSE result]
  /\ last' = [op |-> "go", prev |-> pos, m |-> result]
  /\ UNCHANGED << pos, plies, boardVars, tp, tpOther, nodes, depth,
                  lower, upper, score, maxNodes, probes, result, hist >>

NextUci ==
  \/ UciNewGame
  \/ UciStartposMoves
  \/ UciPositionFen
  \/ SearchStart(GoBudget)
  \/ SearchProbe
  \/ SearchDepthEnd
  \/ UciBestMove

SpecUci == InitUci /\ [][NextUci]_vars

(***************************************************************************)
(* Properties of the position model and the move generator                 *)
(***************************************************************************)

\* The last operation was Position.Move on a castling move of Moves: the king
\* left D1 or E1 by two files along the first rank toward a corner that holds
\* a rook, and the castling flag of that corner was set.
CastlingApplied ==
  /\ last.op = "Move"
  /\ last.prev.board[last.m.from] = "K"
  /\ last.m.from \in {94, 95}
  /\ abs(last.m.to - last.m.from) = 2
  /\ IF last.m.to < last.m.from
       THEN last.prev.wc[0] /\ last.prev.board[A1] = "R"
       ELSE last.prev.wc[1] /\ last.prev.board[H1] = "R"

\* C1: after Position.Move on a castling move the king stands on the
\* destination, the rook of the corner the king moved toward has left that
\* corner and stands on the square the king crossed, the other corner is
\* unchanged and both castling flags of the side that moved are false.  (The
\* successor is flipped: the mover's pieces are lowercase on flipped squares
\* and the mover's flags are bc.)
C1_CastlingMovesKingAndRook ==
  CastlingApplied =>
    LET i == last.m.from
        j == last.m.to
        corner == IF j < i THEN A1 ELSE H1
        other == IF j < i THEN H1 ELSE A1
    IN  /\ pos.board[SquareFlip(j)] = "k"
        /\ pos.board[SquareFlip(corner)] = "."
        /\ pos.board[SquareFlip(GoDiv(i + j, 2))] = "r"
        /\ pos.board[SquareFlip(other)] = PieceFlip(last.prev.board[other])
        /\ ~pos.bc[0] /\ ~pos.bc[1]

\* C2: Board.Flip applied twice (or any even number of times) to a board of
\* the 14 piece codes gives back the board, cell by cell.
C2_BoardFlipTwice ==
  (flips % 2 = 0 /\ \A i \in Cells : brd0[i] \in PieceCodes)
    => \A i \in Cells : brd[i] = brd0[i]

C2_Witness ==
  /\ flips = 2
  /\ brd0[0] = "k"
  /\ brd0[85] = "P"
  /\ BoardFlip(brd0) # brd0

\* Every move Moves returns for snapshot ps starts on one of the mover's
\* pieces and ends on an inner square that is neither the off-board sentinel
\* nor one of the mover's pieces, and no index outside 0..119 was read.
MovesSound(ps) ==
  LET ms == Moves(ps) IN
  \A k \in 1..Len(ms) :
    LET m == ms[k] IN
    /\ m # PanicMove
    /\ m.from \in Cells /\ m.to \in Cells
    /\ ours(ps.board[m.from])
    /\ m.to \in Inner
    /\ ps.board[m.to] # " "
    /\ ~ours(ps.board[m.to])

\* C3 as stated: for every snapshot whose board satisfies the grid
\* invariant, whatever its castling flags, ep and kp, the moves of Moves are
\* sound in the sense of MovesSound.
C3_MovesSoundForAnyFlags ==
  GridOK(pos.board) => MovesSound(pos)

\* A castling flag of the mover is set only while no king of the mover
\* stands anywhere but on D1 or E1.
FlagsFitKing(ps) ==
  (ps.wc[0] \/ ps.wc[1]) => \A sq \in Cells : ps.board[sq] = "K" => sq \in {94, 95}

\* C3 amended: for every snapshot whose board satisfies the grid invariant
\* and whose mover's castling flags are set only while the mover's king
\* stands on D1 or E1 (whatever bc, ep and kp), the moves of Moves are sound.
C3_MovesSoundWhenFlagsFitKing ==
  (GridOK(pos.board) /\ FlagsFitKing(pos)) => MovesSound(pos)

C3_Witness ==
  /\ GridOK(pos.board)
  /\ pos.wc[0] /\ pos.wc[1]
  /\ pos.board[95] = "K"
  /\ pos.kp = 45
  /\ LET ms == Moves(pos)
     IN  /\ \E k \in 1..Len(ms) : ms[k] = Mv(95, 93)
         /\ \E k \in 1..Len(ms) : ms[k] = Mv(95, 97)

DoubleStep == last.prev.board[last.m.from] = "P" /\ last.m.to - last.m.from = 2 * N

\* C5: in the snapshot Position.Move returns, ep is 0 unless the move was a
\* pawn double step, and then it is the square the pawn passed over in the
\* next mover's coordinates; kp is 0.
C5_TargetsAfterMove ==
  last.op = "Move" =>
    /\ pos.ep = IF DoubleStep THEN SquareFlip(last.m.from + N) ELSE 0
    /\ pos.kp = 0

\* C6: a move of Moves that captures the opponent's king has a value of at
\* least MateValue, and the successor's score is at least MateValue in
\* absolute value.
C6_KingCaptureIsDecisive ==
  (last.op = "Move" /\ last.prev.board[last.m.to] = "k") =>
    /\ value(last.prev, last.m) >= MateValue
    /\ abs(pos.score) >= MateValue

\* A pawn move of Moves onto an empty diagonal square: an en-passant capture.
EnPassantOffered(ps) ==
  LET ms == Moves(ps) IN
  \E k \in 1..Len(ms) :
    LET m == ms[k] IN
    /\ m # PanicMove
    /\ ps.board[m.from] = "P"
    /\ m.to - m.from \in {N + W, N + E}
    /\ ps.board[m.to] = "."

\* C9: Position.Flip returns the flipped board, the negated score and no
\* en-passant and king-passant target, so the side that passed the turn to
\* is offered no en-passant capture.
C9_FlipResetsTargets ==
  last.op = "Flip" =>
    /\ pos.board = BoardFlip(last.prev.board)
    /\ pos.score = -last.prev.score
    /\ pos.ep = 0
    /\ pos.kp = 0
    /\ ~EnPassantOffered(pos)

(***************************************************************************)
(* Properties of Search                                                    *)
(***************************************************************************)

WindowOpen == lower < upper - EvalRoughness

\* C8: a further depth iteration is entered only after a completed iteration
\* that ended with |score| < MateValue and with the node counter below the
\* budget; Search returns only after a completed iteration (so the depth-1
\* iteration is completed even with budget 0); no iteration runs at depth 99
\* or above.
C8_DepthLoopControl ==
  /\ [][(pc = "window" /\ depth' # depth) =>
          /\ depth' = depth + 1
          /\ ~WindowOpen /\ probes >= 1
          /\ abs(score) < MateValue
          /\ nodes < maxNodes]_vars
  /\ [][(pc = "window" /\ pc' = "done") => (~WindowOpen /\ probes >= 1)]_vars
  /\ [](pc = "window" => depth \in 1..98)

C8_Witness ==
  /\ pc = "done"
  /\ depth = 98
  /\ maxNodes = 10000
  /\ abs(score) < MateValue
  /\ nodes < maxNodes

\* C10: every probe of the window loop either strictly raises lower or
\* strictly lowers upper and leaves the other alone, whatever bound returns,
\* so upper - lower strictly decreases; when the loop is left,
\* lower >= upper - EvalRoughness.
C10_WindowNarrows ==
  /\ [][probes' = probes + 1 =>
          /\ \/ lower' > lower /\ upper' = upper
             \/ upper' < upper /\ lower' = lower
          /\ upper' - lower' < upper - lower]_vars
  /\ [][(pc = "window" /\ (depth' # depth \/ pc' = "done")) =>
          lower >= upper - EvalRoughness]_vars

C10_Witness ==
  /\ pc = "done"
  /\ probes >= 3
  /\ lower = EvalRoughness + 1
  /\ upper = EvalRoughness + 1
  /\ depth > 1

\* C7: for a snapshot with |score| < MateValue for which Moves returns a move,
\* Search returns one of the moves of Moves, whatever the budget and whatever
\* the table held before.
C7_SearchReturnsAMoveOfMoves ==
  (pc = "done" /\ abs(pos.score) < MateValue /\ Len(Moves(pos)) > 0) =>
    \E k \in 1..Len(Moves(pos)) : Moves(pos)[k] = result

\* C11: an entry of the table is replaced only by the result of a call of
\* equal or greater depth that failed high (score >= gamma), nested calls
\* that reach the same snapshot included; so between two evictions the depth
\* recorded for a snapshot never decreases.
C11_ReplacedOnlyByDeeperFailHigh ==
  \A w \in hist.replaced : w.new >= w.old /\ w.high

\* C12: after every call of bound the table holds at most MaxTableSize
\* entries; the table was cleared only by stores that made it longer than
\* MaxTableSize; and entries leave the table only in a call that cleared the
\* whole table, the entries of all other snapshots with them.
C12_TableBoundedAndClearedWhole ==
  /\ [](Cardinality(DOMAIN tp) + tpOther <= MaxTableSize)
  /\ [](\A k \in 1..Len(hist.evicted) : hist.evicted[k] > MaxTableSize)
  /\ [][((\E ps \in DOMAIN tp : ps \notin DOMAIN tp') \/ tpOther' < tpOther)
          => (Len(hist'.evicted) > Len(hist.evicted) /\ tpOther' = 0)]_vars

C12_Witness ==
  /\ last.op = "bound"
  /\ Len(hist.evicted) = 1
  /\ hist.evicted[1] = MaxTableSize + 1
  /\ tpOther = 0
  /\ pos \in DOMAIN tp

\* C13: Moves returns a pawn double step only for a pawn on its home rank
\* (squares 81..88) with the square it passes and its destination empty, and
\* a single step forward only onto an empty square.
C13_PawnSteps ==
  (last.op = "Move" /\ last.prev.board[last.m.from] = "P") =>
    /\ last.m.to - last.m.from = N + N =>
         /\ last.m.from \in 81..88
         /\ last.prev.board[last.m.from + N] = "."
         /\ last.prev.board[last.m.to] = "."
    /\ last.m.to - last.m.from = N => last.prev.board[last.m.to] = "."

\* No pawn stands on the rank farthest from its owner: none of the mover's
\* on A8..H8, none of the opponent's on A1..H1.
NoFarPawn(b) ==
  /\ \A sq \in A8..H8 : b[sq] # "P"
  /\ \A sq \in A1..H1 : b[sq] # "p"

\* C14: from a board with no pawn on either far rank, no sequence of
\* Position.Move on moves of Moves puts a pawn of either side on the rank
\* farthest from its owner; a pawn moved to A8..H8 is the mover's queen in
\* the successor (the opponent's queen on the flipped square).
C14_NoPawnOnFarRank ==
  /\ NoFarPawn(pos.board)
  /\ (last.op = "Move" /\ last.prev.board[last.m.from] = "P" /\ last.m.to \in A8..H8)
       => pos.board[SquareFlip(last.m.to)] = "q"

C14_Witness ==
  /\ last.op = "Move"
  /\ last.prev.board[last.m.from] = "P"
  /\ last.m.to \in A8..H8
  /\ NoFarPawn(last.prev.board)
  /\ pos.board[SquareFlip(last.m.to)] = "q"

\* Moves returns a move of the mover's king over two files.
CastlingOffered(ps) ==
  LET ms == Moves(ps) IN
  \E k \in 1..Len(ms) :
    /\ ms[k] # PanicMove
    /\ ps.board[ms[k].from] = "K"
    /\ abs(ms[k].to - ms[k].from) = 2

\* C15: in every snapshot reached from start() or from a Position{board: b}
\* of the shells by Position.Move and Position.Flip all four castling flags
\* are false, and Moves returns no king move of two files.
C15_NoCastlingRights ==
  /\ ~pos.wc[0] /\ ~pos.wc[1] /\ ~pos.bc[0] /\ ~pos.bc[1]
  /\ ~CastlingOffered(pos)

\* The turn has passed twice and the mover's king stands on E1 with a rook
\* in each corner and empty squares toward H1: with the right wc[1] set
\* Moves would return the king's move e1g1.
C15_Witness ==
  /\ plies = 2
  /\ pos.board[95] = "K"
  /\ pos.board[H1] = "R"
  /\ pos.board[A1] = "R"
  /\ pos.board[96] = "." /\ pos.board[97] = "."
  /\ last.op = "Flip"
  /\ C15_NoCastlingRights

C16_WhiteFlagTracksSideToMove ==
  /\ uci.white = uci.whiteToMove
  /\ last.op = "go" =>
       uci.bestmove = IF uci.whiteToMove THEN last.m
                      ELSE Mv(SquareFlip(last.m.from), SquareFlip(last.m.to))

====
